---- MODULE Spec2Model ----
(***************************************************************************)
(* A model of src/app.py, the Streamlit calorie estimator: the four-stage  *)
(* session (upload, analyzing, conversation, results), the tool-call loop  *)
(* that runs after a refinement message, and the results render that       *)
(* extracts a JSON object from the final answer and sums its breakdown.    *)
(*                                                                         *)
(* Text is modelled as a sequence of lexical tokens.  The brace tokens     *)
(* "{" and "}" are the only tokens that hold a brace character, so         *)
(* str.find('{') and str.rfind('}') are searches for a token.              *)
(***************************************************************************)
EXTENDS Integers, Sequences, FiniteSets, TLC

VARIABLES
    session_state,   \* st.session_state: a mapping from the keys present to their values
    ui,              \* what the latest script run rendered
    event,           \* the widget interaction that triggered the latest script run
    pc,              \* position of the refinement handler: "ready", "while", "send"
    chat_history,    \* chat_session.history of the running refinement handler
    response,        \* the handler's local `response`: the latest model turn
    tool_response,   \* the handler's local `tool_response`
    trace,           \* events of the current tool-call loop run, in order
    raw_text,        \* input of the extraction check
    extracted,       \* its result
    breakdown_list,  \* input of the aggregation check
    aggregated       \* its result

vars == <<session_state, ui, event, pc, chat_history, response, tool_response,
          trace, raw_text, extracted, breakdown_list, aggregated>>

-----------------------------------------------------------------------------
(* Bounds of the model. *)

MaxHistory == 8
MaxLen == 5
MaxItems == 2

-----------------------------------------------------------------------------
(* JSON values, as json.loads builds them.  Every value is a record of the *)
(* same shape so that any two values can be compared.                      *)

JV(t, n, chars, keys, elems) ==
    [t |-> t, n |-> n, chars |-> chars, keys |-> keys, elems |-> elems]

JInt(n) == JV("int", n, <<>>, <<>>, <<>>)
\* a float, held in tenths: JFloat(29) is 2.9
JFloat(tenths) == JV("float", tenths, <<>>, <<>>, <<>>)
JInf == JV("inf", 0, <<>>, <<>>, <<>>)
JNaN == JV("nan", 0, <<>>, <<>>, <<>>)
JStr(chars) == JV("str", 0, chars, <<>>, <<>>)
JBool(b) == JV("bool", IF b THEN 1 ELSE 0, <<>>, <<>>, <<>>)
JNull == JV("null", 0, <<>>, <<>>, <<>>)
JArr(elems) == JV("arr", 0, <<>>, <<>>, elems)
JObj(keys, elems) == JV("obj", 0, <<>>, keys, elems)

-----------------------------------------------------------------------------
(* Python exceptions and results.  A result is either a value or a raised  *)
(* exception.                                                              *)

Return(v) == [ok |-> TRUE, val |-> v, exc |-> "none"]
Raise(e) == [ok |-> FALSE, val |-> JNull, exc |-> e]

\* except (ValueError, TypeError): json.JSONDecodeError is a ValueError
InnerCaught(exc) == exc \in {"ValueError", "JSONDecodeError", "TypeError"}

\* except (ValueError, json.JSONDecodeError)
OuterCaughtOnlyDecodeError(exc) == exc = "JSONDecodeError"
OuterCaught(exc) == exc \in {"ValueError", "JSONDecodeError"}

-----------------------------------------------------------------------------
(* str.find, str.rfind and slicing, with Python's 0-based indices.         *)

Find(s, c) ==
    IF \E i \in 1..Len(s) : s[i] = c
    THEN (CHOOSE i \in 1..Len(s) : s[i] = c /\ \A j \in 1..(i - 1) : s[j] # c) - 1
    ELSE -1

RFind(s, c) ==
    IF \E i \in 1..Len(s) : s[i] = c
    THEN (CHOOSE i \in 1..Len(s) : s[i] = c /\ \A j \in (i + 1)..Len(s) : s[j] # c) - 1
    ELSE -1

\* s[a:b] for 0 <= a and 0 <= b <= len(s)
PySlice(s, a, b) == IF a >= b THEN <<>> ELSE SubSeq(s, a + 1, b)

-----------------------------------------------------------------------------
(* json.loads over tokens.  A key token stands for a key string and its    *)
(* colon; a scalar token stands for one literal.                           *)

KeyToks == {"breakdown:", "item:", "calories:", "protein_grams:", "carbs_grams:",
            "fat_grams:"}

KeyName(tok) ==
    CASE tok = "breakdown:" -> "breakdown"
      [] tok = "item:" -> "item"
      [] tok = "calories:" -> "calories"
      [] tok = "protein_grams:" -> "protein_grams"
      [] tok = "carbs_grams:" -> "carbs_grams"
      [] tok = "fat_grams:" -> "fat_grams"

ScalarToks == {"95", "25", "0", "-5", "2.9", "'a lot'", "'12'", "'Apple'", "null",
               "true", "1e999", "NaN"}

ScalarVal(tok) ==
    CASE tok = "95" -> JInt(95)
      [] tok = "25" -> JInt(25)
      [] tok = "0" -> JInt(0)
      [] tok = "-5" -> JInt(-5)
      [] tok = "2.9" -> JFloat(29)
      [] tok = "'a lot'" -> JStr(<<"a", " ", "l", "o", "t">>)
      [] tok = "'12'" -> JStr(<<"1", "2">>)
      [] tok = "'Apple'" -> JStr(<<"A", "p", "p", "l", "e">>)
      [] tok = "null" -> JNull
      [] tok = "true" -> JBool(TRUE)
      [] tok = "1e999" -> JInf
      [] tok = "NaN" -> JNaN

ParseOk(v, next) == [ok |-> TRUE, val |-> v, next |-> next]
ParseFail == [ok |-> FALSE, val |-> JNull, next |-> 0]

RECURSIVE ParseValue(_, _)
RECURSIVE ParseMembers(_, _, _, _)
RECURSIVE ParseElems(_, _, _)

\* the value starting at token i
ParseValue(t, i) ==
    IF i > Len(t) THEN ParseFail
    ELSE IF t[i] = "{" THEN
        IF i + 1 <= Len(t) /\ t[i + 1] = "}"
        THEN ParseOk(JObj(<<>>, <<>>), i + 2)
        ELSE ParseMembers(t, i + 1, <<>>, <<>>)
    ELSE IF t[i] = "[" THEN
        IF i + 1 <= Len(t) /\ t[i + 1] = "]"
        THEN ParseOk(JArr(<<>>), i + 2)
        ELSE ParseElems(t, i + 1, <<>>)
    ELSE IF t[i] \in ScalarToks THEN ParseOk(ScalarVal(t[i]), i + 1)
    ELSE ParseFail

\* the members of an object, the next one starting at token i
ParseMembers(t, i, keys, elems) ==
    IF i > Len(t) \/ t[i] \notin KeyToks THEN ParseFail
    ELSE LET r == ParseValue(t, i + 1) IN
        IF ~r.ok \/ r.next > Len(t) THEN ParseFail
        ELSE IF t[r.next] = "}"
            THEN ParseOk(JObj(Append(keys, KeyName(t[i])), Append(elems, r.val)),
                         r.next + 1)
        ELSE IF t[r.next] = ","
            THEN ParseMembers(t, r.next + 1, Append(keys, KeyName(t[i])),
                              Append(elems, r.val))
        ELSE ParseFail

\* the elements of an array, the next one starting at token i
ParseElems(t, i, elems) ==
    LET r == ParseValue(t, i) IN
        IF ~r.ok \/ r.next > Len(t) THEN ParseFail
        ELSE IF t[r.next] = "]" THEN ParseOk(JArr(Append(elems, r.val)), r.next + 1)
        ELSE IF t[r.next] = "," THEN ParseElems(t, r.next + 1, Append(elems, r.val))
        ELSE ParseFail

\* json.loads(s): one value and nothing after it
JsonLoads(s) ==
    LET r == ParseValue(s, 1) IN
        IF r.ok /\ r.next = Len(s) + 1 THEN Return(r.val) ELSE Raise("JSONDecodeError")

-----------------------------------------------------------------------------
(* Lines 182-187: locate the object by brace position and parse it.        *)

JsonEndNoPlusOne(text) == RFind(text, "}")
json_start(text) == Find(text, "{")
json_end(text) == RFind(text, "}") + 1

ExtractJson(text) ==
    IF json_start(text) = -1 \/ json_end(text) = 0
    THEN Raise("ValueError")
    ELSE JsonLoads(PySlice(text, json_start(text), json_end(text)))

-----------------------------------------------------------------------------
(* int(x), as Python computes it for the values json.loads can produce.    *)

IntOk(n) == [ok |-> TRUE, n |-> n, exc |-> "none"]
IntRaise(e) == [ok |-> FALSE, n |-> 0, exc |-> e]

Digits == {"0", "1", "2", "3", "4", "5", "6", "7", "8", "9"}

DigitVal(c) ==
    CASE c = "0" -> 0 [] c = "1" -> 1 [] c = "2" -> 2 [] c = "3" -> 3 [] c = "4" -> 4
      [] c = "5" -> 5 [] c = "6" -> 6 [] c = "7" -> 7 [] c = "8" -> 8 [] c = "9" -> 9

RECURSIVE LStrip(_)
LStrip(chars) ==
    IF chars # <<>> /\ Head(chars) = " " THEN LStrip(Tail(chars)) ELSE chars

RECURSIVE RStrip(_)
RStrip(chars) ==
    IF chars # <<>> /\ chars[Len(chars)] = " "
    THEN RStrip(SubSeq(chars, 1, Len(chars) - 1))
    ELSE chars

RECURSIVE DigitsValue(_, _)
DigitsValue(chars, acc) ==
    IF chars = <<>> THEN acc
    ELSE DigitsValue(Tail(chars), 10 * acc + DigitVal(Head(chars)))

\* int(str): surrounding blanks, an optional sign, then decimal digits only
PyIntStr(chars) ==
    LET s == RStrip(LStrip(chars))
        signed == s # <<>> /\ Head(s) \in {"-", "+"}
        body == IF signed THEN Tail(s) ELSE s
    IN  IF body # <<>> /\ \A i \in 1..Len(body) : body[i] \in Digits
        THEN IntOk(IF signed /\ Head(s) = "-"
                   THEN -DigitsValue(body, 0) ELSE DigitsValue(body, 0))
        ELSE IntRaise("ValueError")

\* int(float) truncates toward zero; v.n holds tenths
PyIntFloat(tenths) == IF tenths >= 0 THEN tenths \div 10 ELSE -((-tenths) \div 10)

PyInt(v) ==
    CASE v.t = "int" -> IntOk(v.n)
      [] v.t = "bool" -> IntOk(v.n)
      [] v.t = "float" -> IntOk(PyIntFloat(v.n))
      [] v.t = "inf" -> IntRaise("OverflowError")
      [] v.t = "nan" -> IntRaise("ValueError")
      [] v.t = "str" -> PyIntStr(v.chars)
      [] OTHER -> IntRaise("TypeError")   \* None, a list, a dict

-----------------------------------------------------------------------------
(* dict.get, truthiness and iteration.                                     *)

\* d.get(key, default) on a dict: the last member named key wins
DictGet(d, key, default) ==
    IF \E i \in 1..Len(d.keys) : d.keys[i] = key
    THEN d.elems[CHOOSE i \in 1..Len(d.keys) :
                    d.keys[i] = key /\ \A j \in (i + 1)..Len(d.keys) : d.keys[j] # key]
    ELSE default

\* `not v`
Falsy(v) ==
    \/ v.t = "null"
    \/ v.t \in {"int", "float", "bool"} /\ v.n = 0
    \/ v.t = "str" /\ v.chars = <<>>
    \/ v.t = "arr" /\ v.elems = <<>>
    \/ v.t = "obj" /\ v.keys = <<>>

\* `for item in v`: the items, or the TypeError of a value that is not iterable
Iterate(v) ==
    CASE v.t = "arr" -> [ok |-> TRUE, items |-> v.elems, exc |-> "none"]
      [] v.t = "obj" ->
            [ok |-> TRUE, items |-> [i \in 1..Len(v.keys) |-> JStr(<<v.keys[i]>>)],
             exc |-> "none"]
      [] v.t = "str" ->
            [ok |-> TRUE, items |-> [i \in 1..Len(v.chars) |-> JStr(<<v.chars[i]>>)],
             exc |-> "none"]
      [] OTHER -> [ok |-> FALSE, items |-> <<>>, exc |-> "TypeError"]

-----------------------------------------------------------------------------
(* Lines 192-222: the per-item coercion and the four running totals.       *)

\* f"{n} kcal", f"{n}g"
Fmt(n, unit) == <<n, unit>>

\* try: x = int(item.get(key))  except (ValueError, TypeError): x = 0
MacroField(item, key) ==
    LET r == PyInt(DictGet(item, key, JNull))
    IN  IF r.ok THEN r ELSE IF InnerCaught(r.exc) THEN IntOk(0) ELSE r

Totals0 ==
    [exc |-> "none", total_calories |-> 0, total_protein |-> 0, total_carbs |-> 0,
     total_fat |-> 0, display_data |-> <<>>]

\* lines 216-219
AddTotalsFatFromCarbs(acc, calories, protein, carbs, fat) ==
    [acc EXCEPT !.total_calories = @ + calories, !.total_protein = @ + protein,
                !.total_carbs = @ + carbs, !.total_fat = @ + carbs]
AddTotals(acc, calories, protein, carbs, fat) ==
    [acc EXCEPT !.total_calories = @ + calories, !.total_protein = @ + protein,
                !.total_carbs = @ + carbs, !.total_fat = @ + fat]

\* one pass of the loop body over `item` (lines 196-222)
ProcessItem(acc, item) ==
    IF item.t # "obj" THEN [acc EXCEPT !.exc = "AttributeError"]
    ELSE LET calories == MacroField(item, "calories")
             protein == MacroField(item, "protein_grams")
             carbs == MacroField(item, "carbs_grams")
             fat == MacroField(item, "fat_grams")
         IN  IF ~calories.ok THEN [acc EXCEPT !.exc = calories.exc]
             ELSE IF ~protein.ok THEN [acc EXCEPT !.exc = protein.exc]
             ELSE IF ~carbs.ok THEN [acc EXCEPT !.exc = carbs.exc]
             ELSE IF ~fat.ok THEN [acc EXCEPT !.exc = fat.exc]
             ELSE [AddTotals(acc, calories.n, protein.n, carbs.n, fat.n) EXCEPT
                     !.display_data = Append(@,
                       [Item |-> DictGet(item, "item", JStr(<<"N", "/", "A">>)),
                        Calories |-> Fmt(calories.n, "kcal"),
                        Protein |-> Fmt(protein.n, "g"),
                        Carbs |-> Fmt(carbs.n, "g"),
                        Fat |-> Fmt(fat.n, "g")])]

RECURSIVE ForItems(_, _, _)
ForItems(items, i, acc) ==
    IF i > Len(items) \/ acc.exc # "none" THEN acc
    ELSE ForItems(items, i + 1, ProcessItem(acc, items[i]))

\* the totals and rows of a breakdown value, or the exception that ended the loop
Aggregate(breakdown) ==
    LET it == Iterate(breakdown)
    IN  IF ~it.ok THEN [Totals0 EXCEPT !.exc = it.exc]
        ELSE ForItems(it.items, 1, Totals0)

-----------------------------------------------------------------------------
(* Lines 178-237: the results render.  A view is what one script run put   *)
(* on the page: `exception` is an exception no handler caught (the run     *)
(* stops where it was raised), `error` the diagnostic of st.error, `code`  *)
(* the raw text of st.code, `controls` the widgets the run reached.        *)

View(stage, controls) ==
    [stage |-> stage, exception |-> "none", error |-> "none", code_shown |-> FALSE,
     code |-> <<>>, warning |-> FALSE, table_shown |-> FALSE, table |-> <<>>,
     metrics |-> <<>>, controls |-> controls]

\* the value of a one-element set: names a computed value once
Only(S) == CHOOSE x \in S : TRUE

\* lines 192-235, once the text has parsed and the breakdown has been summed
ViewOfTotals(text, breakdown, agg) ==
    IF agg.exc = "none"
    THEN [View("results", {"start_over_button"}) EXCEPT
            !.warning = Falsy(breakdown), !.table_shown = TRUE, !.table = agg.display_data,
            !.metrics = <<Fmt(agg.total_calories, "kcal"), Fmt(agg.total_protein, "g"),
                          Fmt(agg.total_carbs, "g"), Fmt(agg.total_fat, "g")>>]
    ELSE IF OuterCaught(agg.exc)
    THEN [View("results", {"start_over_button"}) EXCEPT
            !.warning = Falsy(breakdown), !.error = agg.exc, !.code_shown = TRUE,
            !.code = text]
    ELSE [View("results", {}) EXCEPT !.warning = Falsy(breakdown), !.exception = agg.exc]

\* lines 188-190
ViewOfBreakdown(text, breakdown) ==
    Only({ViewOfTotals(text, breakdown, agg) : agg \in {Aggregate(breakdown)}})

\* lines 181-187 and 232-235
ViewOfData(text, data) ==
    IF data.ok
    THEN Only({ViewOfBreakdown(text, breakdown) :
                 breakdown \in {DictGet(data.val, "breakdown", JArr(<<>>))}})
    ELSE IF OuterCaught(data.exc)
    THEN [View("results", {"start_over_button"}) EXCEPT
            !.error = data.exc, !.code_shown = TRUE, !.code = text]
    ELSE [View("results", {}) EXCEPT !.exception = data.exc]

ResultsView(text) == Only({ViewOfData(text, data) : data \in {ExtractJson(text)}})

-----------------------------------------------------------------------------
(* st.session_state.                                                       *)

None == "None"
NoSession == [k \in {} |-> None]

Has(ss, k) == k \in DOMAIN ss
Get(ss, k, default) == IF k \in DOMAIN ss THEN ss[k] ELSE default
Put(ss, k, v) == [x \in DOMAIN ss \cup {k} |-> IF x = k THEN v ELSE ss[x]]

\* lines 77-82: the keys every script run makes sure of
InitDefaults(ss) ==
    LET a == IF Has(ss, "analysis_stage") THEN ss ELSE Put(ss, "analysis_stage", "upload")
        b == IF Has(a, "uploaded_image_data") THEN a
             ELSE Put(a, "uploaded_image_data", None)
    IN  IF Has(b, "messages") THEN b ELSE Put(b, "messages", <<>>)

-----------------------------------------------------------------------------
(* Messages, parts and model turns.                                        *)

NoArgs == [query |-> ""]
TextPart(text) == [kind |-> "text", text |-> text, name |-> "", args |-> NoArgs]
ImagePart(img) == [kind |-> "image", text |-> <<img>>, name |-> "", args |-> NoArgs]
FunctionCall(name, q) ==
    [kind |-> "function_call", text |-> <<>>, name |-> name, args |-> [query |-> q]]
FunctionResponse(name, content) ==
    [kind |-> "function_response", text |-> content, name |-> name, args |-> NoArgs]

Message(role, parts) == [role |-> role, parts |-> parts]

SystemPrompt == <<"// SYSTEM CONSTITUTION">>
Refinement == <<"more details">>

Images == {"meal.jpg"}
\* Every call carries the one argument its declaration requires (lines 50-53):
\* function_to_call(**tool_args) is perform_web_search(query=...).
Queries == {"Whopper calories", "biryani calories"}

\* line 45: the tool declared to the model; lines 59-61: the registry
DeclaredTools == {"perform_web_search"}
NoTools == {}
available_tools == {"perform_web_search"}

EmptyTurn == <<>>
TextTurn(text) == <<TextPart(text)>>
CallTurn(name, q) == <<FunctionCall(name, q)>>
TextThenCall == <<TextPart(<<"prose">>), FunctionCall("perform_web_search", "Whopper calories")>>

\* the turns the model answers a chat message or a tool result with
ChatTurns ==
    {EmptyTurn, TextTurn(<<"prose">>), TextThenCall, CallTurn("other_tool", "Whopper calories")}
        \cup {CallTurn("perform_web_search", q) : q \in Queries}

\* the final answers the model may give
FinalTexts ==
    { <<"prose">>,
      <<"prose", "{", "breakdown:", "[", "{", "item:", "'Apple'", ",", "calories:", "95",
        ",", "protein_grams:", "'a lot'", ",", "carbs_grams:", "25", ",", "fat_grams:",
        "0", "}", "]", "}", "prose">>,
      <<"fence", "{", "breakdown:", "[", "{", "calories:", "1e999", "}", "]", "}", "fence">>,
      <<"{", "breakdown:", "[", "'Apple'", "]", "}">>,
      <<"{", "breakdown:", "[", "{", "calories:", "-5", "}", ",", "{", "calories:", "2.9",
        "}", "]", "}">>,
      <<"{", "prose", "}">>,
      <<"{", "}">>,
      <<"}", "prose", "{">> }

FinalTurns ==
    {TextTurn(t) : t \in FinalTexts}
        \cup {EmptyTurn, CallTurn("perform_web_search", "Whopper calories")}

\* the while condition of line 137
WhileCond(resp) == Len(resp) > 0 /\ resp[1].kind = "function_call"

\* response.text: the text of a turn that holds text parts only
ResponseText(resp) ==
    IF Len(resp) = 1 /\ resp[1].kind = "text"
    THEN [ok |-> TRUE, text |-> resp[1].text, exc |-> "none"]
    ELSE [ok |-> FALSE, text |-> <<>>, exc |-> "ValueError"]

-----------------------------------------------------------------------------
(* Lines 28-38: the search tool.  `outcome` is what tavily.search does.    *)

SearchOutcomes == {"results", "network_error", "malformed_response"}

ToolOk(v) == [raised |-> FALSE, val |-> v]
ToolRaise == [raised |-> TRUE, val |-> <<>>]

ErrorString(outcome) == <<"Error performing search:", outcome>>

PerformWebSearchReraises(query, outcome) ==
    IF outcome = "results" THEN ToolOk(<<"json", query>>) ELSE ToolRaise

perform_web_search(query, outcome) ==
    IF outcome = "results"
    THEN ToolOk(<<"json", query>>)          \* json.dumps of the {url, content} records
    ELSE ToolOk(ErrorString(outcome))       \* except Exception as e

-----------------------------------------------------------------------------
(* The page of a session: which stage block of main() runs.                *)

\* lines 124-129: parts[0] of a message without parts raises IndexError
HistoryRenders(messages) == \A i \in 1..Len(messages) : Len(messages[i].parts) > 0

Render(ss) ==
    CASE ss["analysis_stage"] = "upload" -> View("upload", {"file_uploader"})
      [] ss["analysis_stage"] = "analyzing" -> View("analyzing", {"analyze_button"})
      [] ss["analysis_stage"] = "conversation" ->
            IF HistoryRenders(ss["messages"])
            THEN View("conversation", {"chat_input", "calculate_button"})
            ELSE [View("conversation", {}) EXCEPT !.exception = "IndexError"]
      [] ss["analysis_stage"] = "results" -> ResultsView(Get(ss, "final_analysis", <<>>))

\* the control an event belongs to
ControlOf(kind) ==
    CASE kind = "upload" -> "file_uploader"
      [] kind = "analyze" -> "analyze_button"
      [] kind = "chat" -> "chat_input"
      [] kind = "calculate" -> "calculate_button"
      [] kind = "start_over" -> "start_over_button"

EventKinds == {"upload", "analyze", "chat", "calculate", "start_over"}
Event(kind, handled) == [kind |-> kind, handled |-> handled]

-----------------------------------------------------------------------------
(* What each handler writes to the session.                                *)

\* lines 88-89
OnUploadSkipsAnalyzing(ss, img) ==
    Put(Put(ss, "uploaded_image_data", img), "analysis_stage", "conversation")
OnUpload(ss, img) ==
    Put(Put(ss, "uploaded_image_data", img), "analysis_stage", "analyzing")

\* lines 113-117
OnAnalyze(ss, reply) ==
    Put(Put(ss, "messages",
            <<Message("user", <<TextPart(SystemPrompt), ImagePart(ss["uploaded_image_data"])>>),
              Message("model", reply)>>),
        "analysis_stage", "conversation")

\* line 156
StoreHistory(ss, history) == Put(ss, "messages", history)

\* lines 174-175
OnCalculate(ss, text) == Put(Put(ss, "final_analysis", text), "analysis_stage", "results")

\* lines 238-239
OnStartOverKeepsAnalysis(ss) == [k \in DOMAIN ss \cap {"final_analysis"} |-> ss[k]]
OnStartOver(ss) == [k \in DOMAIN ss \ DOMAIN ss |-> ss[k]]

-----------------------------------------------------------------------------
(* The events of one tool-call loop run, in the order they happen: a model *)
(* turn received, the adapter invoked, a tool result submitted.            *)

TurnEv(turn) ==
    [ev |-> "turn", turn |-> turn, name |-> "", args |-> NoArgs, outcome |-> "",
     content |-> <<>>, raised |-> FALSE]
InvokeEv(name, args, outcome, ret) ==
    [ev |-> "invoke", turn |-> <<>>, name |-> name, args |-> args, outcome |-> outcome,
     content |-> ret.val, raised |-> ret.raised]
SubmitEv(part) ==
    [ev |-> "submit", turn |-> <<>>, name |-> part.name, args |-> NoArgs, outcome |-> "",
     content |-> part.text, raised |-> FALSE]

\* lines 147-152: the part that carries a tool's answer back to the model
ToolResultPartUnnamed(tool_name, content) == FunctionResponse("", content)
ToolResultPart(tool_name, content) == FunctionResponse(tool_name, content)

\* The model's answers to a message sent on top of `history`.  A call of a
\* declared tool is answered with two more messages, so the model makes one
\* only while the history has room for them.
Replies(history) ==
    {t \in ChatTurns :
        (WhileCond(t) /\ t[1].name \in DeclaredTools) => Len(history) + 3 <= MaxHistory}

NotRun == [done |-> FALSE]

-----------------------------------------------------------------------------
(* The session: one action per handler of main().  Every handler ends in   *)
(* st.rerun(), so it ends with the next script run's defaults and page.    *)

Init ==
    /\ session_state = InitDefaults(NoSession)
    /\ ui = Render(InitDefaults(NoSession))
    /\ event = Event("none", FALSE)
    /\ pc = "ready"
    /\ chat_history = <<>>
    /\ response = <<>>
    /\ tool_response = <<>>
    /\ trace = <<>>
    /\ raw_text = <<>>
    /\ extracted = NotRun
    /\ breakdown_list = <<>>
    /\ aggregated = NotRun

Idle == UNCHANGED <<raw_text, extracted, breakdown_list, aggregated>>
NoLoop == UNCHANGED <<pc, chat_history, tool_response>>

\* lines 84-90
UploadFile(img) ==
    /\ pc = "ready"
    /\ session_state["analysis_stage"] = "upload"
    /\ "file_uploader" \in ui.controls
    /\ session_state' = InitDefaults(OnUpload(session_state, img))
    /\ ui' = Render(session_state')
    /\ event' = Event("upload", TRUE)
    /\ UNCHANGED <<response, trace>>
    /\ NoLoop /\ Idle

\* lines 92-118
AnalyzeFood(reply) ==
    /\ pc = "ready"
    /\ session_state["analysis_stage"] = "analyzing"
    /\ "analyze_button" \in ui.controls
    /\ session_state' = InitDefaults(OnAnalyze(session_state, reply))
    /\ ui' = Render(session_state')
    /\ event' = Event("analyze", TRUE)
    /\ response' = reply
    /\ UNCHANGED trace
    /\ NoLoop /\ Idle

\* lines 131-135: the refinement message is sent and the first turn comes back
ChatSubmit(reply) ==
    /\ pc = "ready"
    /\ session_state["analysis_stage"] = "conversation"
    /\ "chat_input" \in ui.controls
    /\ Len(session_state["messages"]) + 2 <= MaxHistory
    /\ reply \in Replies(Append(session_state["messages"], Message("user", TextTurn(Refinement))))
    /\ chat_history' = session_state["messages"]
                          \o <<Message("user", TextTurn(Refinement)), Message("model", reply)>>
    /\ response' = reply
    /\ trace' = <<TurnEv(reply)>>
    /\ pc' = "while"
    /\ event' = Event("chat", TRUE)
    /\ UNCHANGED <<session_state, ui, tool_response>>
    /\ Idle

\* lines 137-144: the turn asks for a registered tool, which is called
Dispatch(outcome) ==
    /\ pc = "while"
    /\ WhileCond(response)
    /\ response[1].name \in available_tools
    /\ LET ret == perform_web_search(response[1].args.query, outcome)
       IN  /\ trace' = Append(trace, InvokeEv(response[1].name, response[1].args, outcome, ret))
           /\ IF ret.raised
              THEN \* nothing catches it: the script run ends, the session is as it was
                   /\ pc' = "ready"
                   /\ ui' = [Render(session_state) EXCEPT !.exception = "Exception"]
                   /\ chat_history' = <<>>
                   /\ UNCHANGED tool_response
              ELSE /\ pc' = "send"
                   /\ tool_response' = ret.val
                   /\ UNCHANGED <<ui, chat_history>>
    /\ UNCHANGED <<session_state, event, response>>
    /\ Idle

\* lines 146-153: the tool result is sent and the next turn comes back
SendToolResult(reply) ==
    /\ pc = "send"
    /\ reply \in Replies(Append(chat_history, Message("user", <<>>)))
    /\ LET part == ToolResultPart(response[1].name, tool_response)
       IN  /\ chat_history' = chat_history \o <<Message("user", <<part>>), Message("model", reply)>>
           /\ trace' = trace \o <<SubmitEv(part), TurnEv(reply)>>
    /\ response' = reply
    /\ pc' = "while"
    /\ UNCHANGED <<session_state, ui, event, tool_response>>
    /\ Idle

\* lines 137, 154-157: no tool call, or a tool that is not registered
FinishLoop ==
    /\ pc = "while"
    /\ ~(WhileCond(response) /\ response[1].name \in available_tools)
    /\ session_state' = InitDefaults(StoreHistory(session_state, chat_history))
    /\ ui' = Render(session_state')
    /\ pc' = "ready"
    /\ chat_history' = <<>>
    /\ UNCHANGED <<event, response, tool_response, trace>>
    /\ Idle

\* lines 159-176
CalculateFinal(reply) ==
    /\ pc = "ready"
    /\ session_state["analysis_stage"] = "conversation"
    /\ "calculate_button" \in ui.controls
    /\ LET text == ResponseText(reply)
       IN  IF text.ok
           THEN /\ session_state' = InitDefaults(OnCalculate(session_state, text.text))
                /\ ui' = Render(session_state')
           ELSE \* response.text raises: the run ends with the page as rendered so far
                /\ ui' = [Render(session_state) EXCEPT !.exception = text.exc]
                /\ UNCHANGED session_state
    /\ event' = Event("calculate", TRUE)
    /\ response' = reply
    /\ UNCHANGED trace
    /\ NoLoop /\ Idle

\* lines 237-240
StartOver ==
    /\ pc = "ready"
    /\ session_state["analysis_stage"] = "results"
    /\ "start_over_button" \in ui.controls
    /\ session_state' = InitDefaults(OnStartOver(session_state))
    /\ ui' = Render(session_state')
    /\ event' = Event("start_over", TRUE)
    /\ response' = <<>>
    /\ trace' = <<>>
    /\ NoLoop /\ Idle

\* an interaction with a control the page does not hold: the script runs
\* again and no handler sees it
IgnoredEvent(kind) ==
    /\ pc = "ready"
    /\ ControlOf(kind) \notin ui.controls
    /\ session_state' = InitDefaults(session_state)
    /\ ui' = Render(session_state')
    /\ event' = Event(kind, FALSE)
    /\ UNCHANGED <<response, trace>>
    /\ NoLoop /\ Idle

Next ==
    \/ \E img \in Images : UploadFile(img)
    \/ \E reply \in ChatTurns : AnalyzeFood(reply)
    \/ \E reply \in ChatTurns : ChatSubmit(reply)
    \/ \E outcome \in SearchOutcomes : Dispatch(outcome)
    \/ \E reply \in ChatTurns : SendToolResult(reply)
    \/ FinishLoop
    \/ \E reply \in FinalTurns : CalculateFinal(reply)
    \/ StartOver
    \/ \E kind \in EventKinds : IgnoredEvent(kind)

Spec == Init /\ [][Next]_vars

-----------------------------------------------------------------------------
(* The extraction on its own: every text of at most MaxLen tokens.         *)

ExtractAlphabet == {"{", "}", "breakdown:", "95", "prose"}
Texts == UNION {[1..n -> ExtractAlphabet] : n \in 0..MaxLen}

InitExtract ==
    /\ session_state = InitDefaults(NoSession)
    /\ ui = Render(InitDefaults(NoSession))
    /\ event = Event("none", FALSE)
    /\ pc = "ready"
    /\ chat_history = <<>>
    /\ response = <<>>
    /\ tool_response = <<>>
    /\ trace = <<>>
    /\ raw_text \in Texts
    /\ extracted = NotRun
    /\ breakdown_list = <<>>
    /\ aggregated = NotRun

\* lines 181-187 and 232-235 on raw_text
RunExtract ==
    /\ ~extracted.done
    /\ extracted' = [done |-> TRUE, res |-> ExtractJson(raw_text), view |-> ResultsView(raw_text)]
    /\ UNCHANGED <<session_state, ui, event, pc, chat_history, response, tool_response,
                   trace, raw_text, breakdown_list, aggregated>>

NextExtract == RunExtract

SpecExtract == InitExtract /\ [][NextExtract]_vars

-----------------------------------------------------------------------------
(* The aggregation on its own: every breakdown list of at most MaxItems    *)
(* items.  An item is a dict whose macro fields are drawn from the values  *)
(* below (Absent: the key is missing), or a bare string.                   *)

Absent == JV("absent", 0, <<>>, <<>>, <<>>)

ALot == JStr(<<"a", " ", "l", "o", "t">>)
Twelve == JStr(<<" ", "1", "2">>)
MinusTwelve == JStr(<<"-", "1", "2">>)
Apple == JStr(<<"A", "p", "p", "l", "e">>)

CaloriesVals ==
    {Absent, JInt(95), JInt(-5), JFloat(29), Twelve, MinusTwelve, ALot, JInf, JNaN,
     JBool(TRUE)}
ProteinVals == {ALot, JInt(3)}
CarbsVals == {JInt(25)}
FatVals == {JInt(0), JArr(<<>>)}

ItemOf(c, p, cb, f) ==
    LET pairs == <<<<"item", Apple>>, <<"calories", c>>, <<"protein_grams", p>>,
                   <<"carbs_grams", cb>>, <<"fat_grams", f>>>>
        present == SelectSeq(pairs, LAMBDA x : x[2].t # "absent")
    IN  JObj([i \in 1..Len(present) |-> present[i][1]],
             [i \in 1..Len(present) |-> present[i][2]])

Items ==
    {ItemOf(c, p, cb, f) : c \in CaloriesVals, p \in ProteinVals, cb \in CarbsVals,
                           f \in FatVals} \cup {Apple}

BreakdownLists == UNION {[1..n -> Items] : n \in 0..MaxItems}

InitTotals ==
    /\ session_state = InitDefaults(NoSession)
    /\ ui = Render(InitDefaults(NoSession))
    /\ event = Event("none", FALSE)
    /\ pc = "ready"
    /\ chat_history = <<>>
    /\ response = <<>>
    /\ tool_response = <<>>
    /\ trace = <<>>
    /\ raw_text = <<>>
    /\ extracted = NotRun
    /\ breakdown_list \in BreakdownLists
    /\ aggregated = NotRun

\* lines 192-222 on breakdown_list
RunAggregate ==
    /\ ~aggregated.done
    /\ aggregated' = [done |-> TRUE, res |-> Aggregate(JArr(breakdown_list))]
    /\ UNCHANGED <<session_state, ui, event, pc, chat_history, response, tool_response,
                   trace, raw_text, extracted, breakdown_list>>

NextTotals == RunAggregate

SpecTotals == InitTotals /\ [][NextTotals]_vars

-----------------------------------------------------------------------------
(* Properties of the session and of the tool-call loop, under Spec.        *)

Stage == session_state["analysis_stage"]
Messages == session_state["messages"]
FinalAnalysis == Get(session_state, "final_analysis", <<>>)

\* the refinement handler has run to its end
LoopExited == pc = "ready" /\ event = Event("chat", TRUE)

Count(ev) == Cardinality({i \in 1..Len(trace) : trace[i].ev = ev})

ContainsToolCall(turn) == \E i \in 1..Len(turn) : turn[i].kind = "function_call"

\* the turn's first part calls the tool of lines 45 and 60
CallsSearchFirst(turn) ==
    Len(turn) > 0 /\ turn[1].kind = "function_call" /\ turn[1].name = "perform_web_search"

\* C1, as stated: when the loop of a refinement message has ended, as many
\* tool results were submitted as adapter calls were made, and the loop ended
\* on a turn that holds no tool call.
C1_EndsOnlyWithoutToolCall ==
    LoopExited => Count("submit") = Count("invoke") /\ ~ContainsToolCall(response)

\* C1, amended: when the loop has ended, as many tool results were submitted
\* as adapter calls were made, and the loop ends exactly on a turn whose first
\* part is not a call of the registered tool: a turn at the head of the loop
\* ends it if and only if it does not start with such a call.
C1_EndsOnFirstPartNotRegisteredCall ==
    /\ [](LoopExited => Count("submit") = Count("invoke") /\ ~CallsSearchFirst(response))
    /\ [][pc = "while" => (pc' = "ready" <=> ~CallsSearchFirst(response))]_vars

\* a loop that made two adapter calls and ended on plain text
C1_Witness ==
    LoopExited /\ Count("invoke") = 2 /\ Count("submit") = 2
               /\ response = TextTurn(<<"prose">>)

Stages == {"upload", "analyzing", "conversation", "results"}

ValidKinds(stage) ==
    CASE stage = "upload" -> {"upload"}
      [] stage = "analyzing" -> {"analyze"}
      [] stage = "conversation" -> {"chat", "calculate"}
      [] stage = "results" -> {"start_over"}

StageChanges ==
    {<<"upload", "upload", "analyzing">>, <<"analyzing", "analyze", "conversation">>,
     <<"conversation", "calculate", "results">>, <<"results", "start_over", "upload">>}

\* C2: the stage is always one of the four; it changes only by upload ->
\* analyzing on an upload, analyzing -> conversation on Analyze, conversation
\* -> results on Calculate and results -> upload on Start Over (a refinement
\* keeps conversation); an action that is not valid for the stage leaves the
\* session state as it was.
C2_StageMachine ==
    /\ [](Stage \in Stages)
    /\ [][/\ session_state'["analysis_stage"] # Stage =>
                /\ event'.handled
                /\ <<Stage, event'.kind, session_state'["analysis_stage"]>> \in StageChanges
          /\ (pc = "ready" /\ event'.kind \notin ValidKinds(Stage)) =>
                /\ ~event'.handled
                /\ session_state' = session_state]_vars

\* a refinement message arrives in the results stage and is ignored
C2_Witness == Stage = "results" /\ event = Event("chat", FALSE)

\* C3: right after Start Over the session is the session of a fresh start:
\* stage upload, no image, no messages, no final analysis, the upload page.
C3_StartOverIsFresh ==
    event = Event("start_over", TRUE) =>
        /\ DOMAIN session_state = {"analysis_stage", "uploaded_image_data", "messages"}
        /\ Stage = "upload"
        /\ session_state["uploaded_image_data"] = None
        /\ Messages = <<>>
        /\ ui = View("upload", {"file_uploader"})

\* Start Over has just run
C3_Witness == event = Event("start_over", TRUE) /\ pc = "ready"

\* C6: a search that fails is answered with the adapter's error string: the
\* call does not raise, the string is the tool result submitted, and the next
\* model turn follows it.
C6_SearchFailureContained ==
    /\ ui.exception # "Exception"
    /\ \A i \in 1..Len(trace) :
        (trace[i].ev = "invoke" /\ trace[i].outcome # "results") =>
            /\ ~trace[i].raised
            /\ trace[i].content = <<"Error performing search:", trace[i].outcome>>
            /\ IF i = Len(trace)
               THEN pc = "send" /\ tool_response = trace[i].content
               ELSE /\ i + 2 <= Len(trace)
                    /\ trace[i + 1].ev = "submit"
                    /\ trace[i + 1].content = trace[i].content
                    /\ trace[i + 2].ev = "turn"

\* a failed search whose error string was submitted and answered by a turn
C6_Witness ==
    \E i \in 1..Len(trace) :
        /\ trace[i].ev = "invoke" /\ trace[i].outcome = "network_error"
        /\ i + 2 <= Len(trace) /\ trace[i + 2].ev = "turn"

ParseFails(text) == ~ExtractJson(text).ok

\* C8: while the final text stored in the results stage does not parse, the
\* page shows the diagnostic and the raw text and no totals, Start Over is on
\* the page, and nothing but Start Over changes the session.
C8_ParseFailureIsShown ==
    /\ []((Stage = "results" /\ ParseFails(FinalAnalysis)) =>
            /\ ui.exception = "none"
            /\ ui.error \in {"ValueError", "JSONDecodeError"}
            /\ ui.code_shown /\ ui.code = FinalAnalysis
            /\ ~ui.table_shown /\ ui.metrics = <<>>
            /\ "start_over_button" \in ui.controls)
    /\ [][(Stage = "results" /\ ParseFails(FinalAnalysis)
              /\ event' # Event("start_over", TRUE)) => session_state' = session_state]_vars

\* a final answer without a brace is on the results page as an error
C8_Witness ==
    Stage = "results" /\ FinalAnalysis = <<"prose">> /\ ui.error = "ValueError"

\* C10, as stated: a reply that starts with a call of the registered tool is
\* dispatched and answered before it is stored or the stage advances, after
\* whichever message it answers: every such reply in the stored history is
\* followed by its tool result, and no handler ends on such a reply.
C10_EveryReplyDispatched ==
    /\ \A i \in 1..Len(Messages) :
        (Messages[i].role = "model" /\ CallsSearchFirst(Messages[i].parts)) =>
            /\ i < Len(Messages)
            /\ Len(Messages[i + 1].parts) > 0
            /\ Messages[i + 1].parts[1].kind = "function_response"
    /\ pc = "ready" => ~CallsSearchFirst(response)

-----------------------------------------------------------------------------
(* Properties of the extraction, under SpecExtract.                        *)

HasTok(s, c) == \E i \in 1..Len(s) : s[i] = c

\* C5: the extraction fails with ValueError when the text has no "{" or no
\* "}"; otherwise, with the first "{" at i and the last "}" at j, it is
\* json.loads of the tokens i..j, whatever stands before i and after j: the
\* object when they are valid JSON, JSONDecodeError when they are not.  The
\* page shows every failure as the error.
C5_FirstBraceToLastBrace ==
    extracted.done =>
        /\ (~HasTok(raw_text, "{") \/ ~HasTok(raw_text, "}")) =>
              extracted.res = Raise("ValueError")
        /\ \A i, j \in 1..Len(raw_text) :
              ( /\ raw_text[i] = "{" /\ \A k \in 1..(i - 1) : raw_text[k] # "{"
                /\ raw_text[j] = "}" /\ \A k \in (j + 1)..Len(raw_text) : raw_text[k] # "}" )
              => extracted.res = IF i <= j THEN JsonLoads(SubSeq(raw_text, i, j))
                                 ELSE Raise("JSONDecodeError")
        /\ ~extracted.res.ok =>
              extracted.view.error = extracted.res.exc /\ extracted.view.code = raw_text

\* an object between prose is recovered
C5_Witness ==
    /\ extracted.done /\ extracted.res.ok
    /\ Len(raw_text) >= 4 /\ raw_text[1] = "prose" /\ raw_text[Len(raw_text)] = "prose"

-----------------------------------------------------------------------------
(* Properties of the aggregation, under SpecTotals.                        *)

MacroKeys == <<"calories", "protein_grams", "carbs_grams", "fat_grams">>

\* the four values of row i, in the order of MacroKeys
RowValues(row) == <<row.Calories[1], row.Protein[1], row.Carbs[1], row.Fat[1]>>

TotalValues(res) ==
    <<res.total_calories, res.total_protein, res.total_carbs, res.total_fat>>

RECURSIVE SumRows(_, _, _)
SumRows(rows, i, k) ==
    IF i > Len(rows) THEN 0 ELSE RowValues(rows[i])[k] + SumRows(rows, i + 1, k)

AllDicts == \A i \in 1..Len(breakdown_list) : breakdown_list[i].t = "obj"

\* missing (None), not a number, or no number at all
Unusable(v) == v.t \in {"null", "arr", "obj", "inf", "nan"} \/ v = ALot

\* C4, as stated: over a list of dict items no field value ends the
\* extraction, every item gives a row, and every field that is missing or
\* unusable counts 0 whatever the item's other fields are.
C4_NoFieldAborts ==
    (aggregated.done /\ AllDicts) =>
        /\ aggregated.res.exc = "none"
        /\ Len(aggregated.res.display_data) = Len(breakdown_list)
        /\ \A i \in 1..Len(breakdown_list) : \A k \in 1..4 :
              Unusable(DictGet(breakdown_list[i], MacroKeys[k], JNull)) =>
                  RowValues(aggregated.res.display_data[i])[k] = 0

\* a number below zero, or a string that int() reads as one
Negative(v) ==
    \/ v.t \in {"int", "float"} /\ v.n < 0
    \/ v.t = "str" /\ PyIntStr(v.chars).ok /\ PyIntStr(v.chars).n < 0

NoNegativeField ==
    \A i \in 1..Len(breakdown_list) : \A k \in 1..4 :
        ~Negative(DictGet(breakdown_list[i], MacroKeys[k], JNull))

\* C9, as stated: every value of every row is an integer >= 0, and every
\* total is >= 0 and >= every row's value.
C9_ValuesNonNegative ==
    (aggregated.done /\ aggregated.res.exc = "none") =>
        \A k \in 1..4 :
            /\ TotalValues(aggregated.res)[k] >= 0
            /\ \A i \in 1..Len(aggregated.res.display_data) :
                  /\ RowValues(aggregated.res.display_data[i])[k] >= 0
                  /\ TotalValues(aggregated.res)[k]
                        >= RowValues(aggregated.res.display_data[i])[k]

\* C9, amended: every value of every row is an integer and every total is
\* the sum of the rows' values; when no field is negative, the values and
\* the totals are >= 0 and every total is >= every row's value.
C9_TotalsAreSums ==
    (aggregated.done /\ aggregated.res.exc = "none") =>
        \A k \in 1..4 :
            /\ TotalValues(aggregated.res)[k] = SumRows(aggregated.res.display_data, 1, k)
            /\ \A i \in 1..Len(aggregated.res.display_data) :
                  /\ RowValues(aggregated.res.display_data[i])[k] \in Int
                  /\ NoNegativeField =>
                        /\ RowValues(aggregated.res.display_data[i])[k] >= 0
                        /\ TotalValues(aggregated.res)[k]
                              >= RowValues(aggregated.res.display_data[i])[k]
            /\ NoNegativeField => TotalValues(aggregated.res)[k] >= 0

\* two items summed, one of them with calories below zero
C9_Witness ==
    /\ aggregated.done /\ aggregated.res.exc = "none"
    /\ Len(aggregated.res.display_data) = 2
    /\ aggregated.res.total_calories = 90
    /\ aggregated.res.total_carbs = 50

=============================================================================
